---- MODULE Spec2Model ----
(***************************************************************************)
(* Envelope image store of server.js: the upload (put), delete, file and   *)
(* listing routes over a GridFS bucket (the Blob Store) and the Upload     *)
(* collection (the Metadata Catalog).  Every await of a handler is a point *)
(* where other requests and the bucket's background deletions may run, so  *)
(* each handler is cut into one action per await.                          *)
(***************************************************************************)
EXTENDS Integers, Sequences, FiniteSets, TLC

\* ------------------------------------------------------------------------
\* Bounds
\* ------------------------------------------------------------------------
NumReqs == 2        \* requests issued during one behaviour
MaxRejected == 1    \* requests turned away with a 4xx answer
MaxFaults == 1      \* requests during which the backend fails
OidLen == 2         \* hex digits of an ObjectId's string form (24 in BSON)
MaxDocs == 202      \* documents of the largest collection listed

Reqs == 1..NumReqs
\* ObjectIds of blobs: 0 is the blob stored before the process started, r
\* the one request r uploads.
Oids == 0..NumReqs

\* ------------------------------------------------------------------------
\* Values of the inbound transport
\* ------------------------------------------------------------------------
DigitChars == <<"0", "1", "2", "3", "4", "5", "6", "7", "8", "9">>
HexChars == DigitChars \o <<"a", "b", "c", "d", "e", "f">>

IsDigit(c) == \E i \in 1..Len(DigitChars) : DigitChars[i] = c
DigitVal(c) == (CHOOSE i \in 1..Len(DigitChars) : DigitChars[i] = c) - 1
IsHex(c) == \E i \in 1..Len(HexChars) : HexChars[i] = c
HexVal(c) == (CHOOSE i \in 1..Len(HexChars) : HexChars[i] = c) - 1

RECURSIVE Pow(_, _)
Pow(b, n) == IF n = 0 THEN 1 ELSE b * Pow(b, n - 1)

RECURSIVE DigitsVal(_)
DigitsVal(s) == IF s = <<>> THEN 0
                ELSE 10 * DigitsVal(SubSeq(s, 1, Len(s) - 1)) + DigitVal(s[Len(s)])

AllDigits(s) == \A i \in 1..Len(s) : IsDigit(s[i])

\* A field of the request body or a route parameter: a string or undefined.
Str(chars) == [defined |-> TRUE, chars |-> chars]
Undefined == [defined |-> FALSE, chars |-> <<>>]

\* A JavaScript number, as far as the handlers look at it: NaN, or the
\* rational num/den.
NaN == [nan |-> TRUE, num |-> 0, den |-> 1]
Num(n, d) == [nan |-> FALSE, num |-> n, den |-> d]

\* Number(x) of ECMAScript for undefined and for strings of sign, digits and
\* dot: undefined is NaN, the empty string is 0, a decimal literal is its
\* value and anything else is NaN.
Number(x) ==
    IF ~x.defined THEN NaN
    ELSE IF x.chars = <<>> THEN Num(0, 1)
    ELSE LET s == x.chars
             signed == Head(s) \in {"-", "+"}
             sign == IF Head(s) = "-" THEN -1 ELSE 1
             body == IF signed THEN Tail(s) ELSE s
             dots == {i \in 1..Len(body) : body[i] = "."}
             dot == IF dots = {} THEN Len(body) + 1
                    ELSE CHOOSE i \in dots : \A j \in dots : i <= j
             ip == SubSeq(body, 1, dot - 1)
             fp == SubSeq(body, dot + 1, Len(body))
         IN  IF AllDigits(ip) /\ AllDigits(fp) /\ Len(ip) + Len(fp) > 0
             THEN Num(sign * (DigitsVal(ip) * Pow(10, Len(fp)) + DigitsVal(fp)),
                      Pow(10, Len(fp)))
             ELSE NaN

NumberIsInteger(n) == ~n.nan /\ n.num % n.den = 0
NumberLtZero(n) == ~n.nan /\ n.num < 0
IntValue(n) == n.num \div n.den

\* The envelopeId fields a client may send with an upload: none, the empty
\* field, decimals, a negative, a word and a fraction.
PutRawIds == {Undefined, Str(<<>>), Str(<<"0">>), Str(<<"1">>), Str(<<"-", "1">>),
              Str(<<"a", "b", "c">>), Str(<<"1", ".", "5">>)}
\* A route parameter is a non-empty path segment.
DeleteRawIds == {Str(<<"0">>), Str(<<"1">>), Str(<<"-", "1">>),
                 Str(<<"a", "b", "c">>), Str(<<"1", ".", "5">>)}

\* The file multer hands to the handler (memory storage: size is the length
\* of the buffer); a mimetype is <<type, subtype>>, <<>> when missing.
MulterFile(name, mime, bytes) ==
    [present |-> TRUE, originalname |-> name, mimetype |-> mime,
     buffer |-> bytes, size |-> Len(bytes)]
NoFile == [present |-> FALSE, originalname |-> "", mimetype |-> <<>>,
           buffer |-> <<>>, size |-> 0]
PngA == MulterFile("a.png", <<"image", "png">>, <<1>>)
JpgB == MulterFile("b.jpg", <<"image", "jpeg">>, <<2, 3>>)
EmptyPng == MulterFile("e.png", <<"image", "png">>, <<>>)
TextFile == MulterFile("t.txt", <<"text", "plain">>, <<4>>)
NoMimeFile == MulterFile("x", <<>>, <<5>>)

ImageFiles == {PngA, JpgB, EmptyPng}
OtherFiles == {TextFile, NoMimeFile}

\* fileFilter of the multer instance: TRUE when the file is accepted.
fileFilter(file) ==
    ~(file.mimetype = <<>> \/ file.mimetype[1] # "image")

\* ------------------------------------------------------------------------
\* ObjectIds and their string form
\* ------------------------------------------------------------------------
RECURSIVE HexOf(_, _)
HexOf(n, len) == IF len = 0 THEN <<>>
                 ELSE HexOf(n \div 16, len - 1) \o <<HexChars[(n % 16) + 1]>>

RECURSIVE HexValOf(_)
HexValOf(s) == IF s = <<>> THEN 0
               ELSE 16 * HexValOf(SubSeq(s, 1, Len(s) - 1)) + HexVal(s[Len(s)])

\* String(objectId)
OidString(oid) == HexOf(oid, OidLen)
\* new mongoose.Types.ObjectId(string) throws unless the string has the
\* length and the alphabet of an ObjectId.
OidValid(s) == Len(s) = OidLen /\ \A i \in 1..Len(s) : IsHex(s[i])
ObjectId(s) == HexValOf(s)

\* The ObjectId the driver generates for the upload stream request r opens:
\* a request opens at most one stream and generated ids are distinct.
StreamId(r) == r

FileUrl(fileId) == <<"/api/files/", fileId>>

\* ------------------------------------------------------------------------
\* State
\* ------------------------------------------------------------------------
VARIABLES
    isConnected,    \* let isConnected
    gfsBucket,      \* let gfsBucket: FALSE is null, TRUE the GridFSBucket
    catalog,        \* documents of the Upload collection
    files,          \* documents of uploads.files: the fully written blobs
    pendingDel,     \* gfsBucket.delete calls issued and not yet carried out
    req,            \* the requests: position in the handler and its locals
    clock,          \* source of document ids and creation times
    uploadDir       \* const uploadDir: TRUE when UPLOAD_DIR is set

vars == <<isConnected, gfsBucket, catalog, files, pendingDel, req, clock,
          uploadDir>>

NoBody == [none |-> TRUE]
IdleReq == [kind |-> "none", pc |-> "idle", file |-> NoFile, envelopeId |-> -1,
            existing |-> <<>>, fileId |-> <<>>, status |-> 0, body |-> NoBody,
            failed |-> FALSE]

\* A request of the given kind that has not read its input yet.
NewReq(kind) == [IdleReq EXCEPT !.kind = kind]

InFlight == {r \in Reqs : req[r].pc \notin {"idle", "done"}}

\* Request slots are taken in order.
CanArrive(r) ==
    /\ req[r].pc = "idle"
    /\ IF r = 1 THEN TRUE ELSE req[r - 1].pc # "idle"

\* failed marks the requests during which the backend failed.
Rejected == {r \in Reqs : /\ req[r].pc = "done" /\ ~req[r].failed
                          /\ req[r].status \in {400, 413}}
Faulted == {r \in Reqs : req[r].failed}
MayReject == Cardinality(Rejected) < MaxRejected
MayFail == Cardinality(Faulted) < MaxFaults

ReadKinds == {"getFile", "getAll", "envelopes"}

\* res.status(code).json(body) followed by return, or the end of the handler.
Respond(rec, code, body) == [rec EXCEPT !.pc = "done", !.status = code, !.body = body]

\* The answer of a request turned away or failed: its locals are dropped.
RespondError(kind, code, message) == Respond(NewReq(kind), code, [error |-> message])

Failed(rec) == [rec EXCEPT !.failed = TRUE]

\* What becomes of a request when a promise its handler awaits rejects.
\* The upload and delete routes catch and answer 500 with the message
\* (lines 124-126, 198-200); the file route catches and answers 400
\* (lines 233-235); the two listings have no try/catch: the rejection of
\* the async handler is either left unhandled, so that the request is never
\* answered, or forwarded to the error middleware of lines 238-244, which
\* answers 400, depending on the Express release.
FailureAnswers(kind, message) ==
    CASE kind \in {"put", "delete"} ->
           {Failed(RespondError(kind, 500, message))}
      [] kind = "getFile" ->
           {Failed(Respond(NewReq(kind), 400, [text |-> "Bad request"]))}
      [] OTHER ->
           {Failed([NewReq(kind) EXCEPT !.pc = "hung"]),
            Failed(RespondError(kind, 400, message))}

\* The database outlives the process: it starts with the entry and the blob
\* an upload of an earlier run left for envelope 1, and nothing for the
\* other envelopes.
StoredFile ==
    [_id |-> 0, filename |-> "old.gif", contentType |-> <<"image", "gif">>,
     metadata |-> [envelopeId |-> 1], data |-> <<7, 8, 9>>, length |-> 3]
StoredDoc ==
    [_id |-> 0, envelopeId |-> 1, originalName |-> "old.gif",
     mimeType |-> <<"image", "gif">>, size |-> 3, fileId |-> OidString(0),
     url |-> FileUrl(OidString(0)), createdAt |-> 0]

Init ==
    /\ isConnected = FALSE
    /\ gfsBucket = FALSE
    /\ catalog = {StoredDoc}
    /\ files = {StoredFile}
    /\ pendingDel = [oid \in Oids |-> 0]
    /\ req = [r \in Reqs |-> IdleReq]
    /\ clock = 1
    /\ uploadDir = FALSE

\* ------------------------------------------------------------------------
\* The Upload collection (models/upload.js) and the bucket
\* ------------------------------------------------------------------------
\* Lines 212-222 of app.get('/api/files/:id'): the files documents the id of
\* a url resolves to.
BlobAt(fileId) ==
    IF OidValid(fileId) THEN {f \in files : f._id = ObjectId(fileId)} ELSE {}
BlobPresent(fileId) == BlobAt(fileId) # {}

\* Variant: a query whose filter is empty, matching every document.
Matching_all(envelopeId) == catalog

\* Upload.findOne({ envelopeId }) / the filter of the find-and-modify calls
Matching(envelopeId) == {d \in catalog : d.envelopeId = envelopeId}

\* What a find-and-modify call on { envelopeId } acts on: the matching
\* document, or nothing when no document matches.  The calls are atomic in
\* the collection and envelopeId is its unique key, so the match and the
\* write are one step.
ModifyTargets(envelopeId) ==
    IF Matching(envelopeId) = {} THEN {{}}
    ELSE {{d} : d \in Matching(envelopeId)}

\* The document an upsert inserts: the update's fields, a generated _id and
\* the creation time.
NewUploadDoc(fields) ==
    [_id |-> clock, envelopeId |-> fields.envelopeId,
     originalName |-> fields.originalName, mimeType |-> fields.mimeType,
     size |-> fields.size, fileId |-> fields.fileId, url |-> fields.url,
     createdAt |-> clock]

\* Variant: an update that only moves the entry to the new blob.
UpdatedUploadDoc_partial(old, fields) ==
    [old EXCEPT !.fileId = fields.fileId, !.url = fields.url]

\* The document an update leaves: the update's fields over the old document,
\* _id and createdAt kept.
UpdatedUploadDoc(old, fields) ==
    [old EXCEPT !.envelopeId = fields.envelopeId,
                !.originalName = fields.originalName,
                !.mimeType = fields.mimeType, !.size = fields.size,
                !.fileId = fields.fileId, !.url = fields.url]

\* Variant: the old blob is never handed to the bucket.
IssueDelete_dropped(pd, fileId) == pd

\* gfsBucket.delete(new mongoose.Types.ObjectId(fileId), () => {}) inside
\* try/catch: the call is issued and the handler goes on; a fileId that is
\* no ObjectId makes the constructor throw, which the catch swallows.
IssueDelete(pd, fileId) ==
    IF OidValid(fileId) /\ ObjectId(fileId) \in DOMAIN pd
    THEN [pd EXCEPT ![ObjectId(fileId)] = @ + 1]
    ELSE pd

\* The response body of the upload route.
DocJson(doc) ==
    [id |-> doc._id, envelopeId |-> doc.envelopeId, url |-> doc.url,
     originalName |-> doc.originalName, mimeType |-> doc.mimeType,
     size |-> doc.size, createdAt |-> doc.createdAt]

\* ------------------------------------------------------------------------
\* app.post('/api/uploads', upload.single('image'), ...)
\* ------------------------------------------------------------------------
\* upload.single('image') rejects the file: the error-handling middleware
\* answers and the handler never runs.
PutRejectedByFilter(r, file) ==
    /\ CanArrive(r)
    /\ MayReject
    /\ ~fileFilter(file)
    /\ req' = [req EXCEPT ![r] =
                 RespondError("put", 400, "Only image uploads are allowed")]
    /\ UNCHANGED <<uploadDir, isConnected, gfsBucket, catalog, files, pendingDel, clock>>

\* The file is longer than maxFileSize: multer raises LIMIT_FILE_SIZE.
PutFileTooLarge(r) ==
    /\ CanArrive(r)
    /\ MayReject
    /\ req' = [req EXCEPT ![r] = RespondError("put", 413, "File too large")]
    /\ UNCHANGED <<uploadDir, isConnected, gfsBucket, catalog, files, pendingDel, clock>>

\* Lines 67-77, run once ensureDb has returned: the request's locals after
\* the validation of envelopeId and of req.file.
PutValidate(raw, file) ==
    LET envelopeId == Number(raw)
    IN  IF ~NumberIsInteger(envelopeId) \/ NumberLtZero(envelopeId)
        THEN RespondError("put", 400, "Invalid envelopeId")
        ELSE IF ~file.present
        THEN RespondError("put", 400, "No file uploaded")
        ELSE [NewReq("put") EXCEPT !.pc = "findOne", !.file = file,
                                   !.envelopeId = IntValue(envelopeId)]

\* Lines 177-181 of the delete route.
DeleteValidate(raw) ==
    LET envelopeId == Number(raw)
    IN  IF ~NumberIsInteger(envelopeId) \/ NumberLtZero(envelopeId)
        THEN RespondError("delete", 400, "Invalid envelopeId")
        ELSE [NewReq("delete") EXCEPT !.pc = "findOneAndDelete",
                                      !.envelopeId = IntValue(envelopeId)]

\* The body multer passes on: an image file or none, and any envelopeId.
PutInputs == PutRawIds \X (ImageFiles \cup {NoFile})

\* ensureDb() with the connection open: returns without suspending on I/O,
\* and the handler runs on to its first query.
PutBegin(r, raw, file) ==
    /\ CanArrive(r)
    /\ isConnected
    /\ gfsBucket' = TRUE
    /\ PutValidate(raw, file).pc = "done" => MayReject
    /\ req' = [req EXCEPT ![r] = PutValidate(raw, file)]
    /\ UNCHANGED <<uploadDir, isConnected, catalog, files, pendingDel, clock>>

DeleteBegin(r, raw) ==
    /\ CanArrive(r)
    /\ isConnected
    /\ gfsBucket' = TRUE
    /\ DeleteValidate(raw).pc = "done" => MayReject
    /\ req' = [req EXCEPT ![r] = DeleteValidate(raw)]
    /\ UNCHANGED <<uploadDir, isConnected, catalog, files, pendingDel, clock>>

\* ensureDb() with isConnected false: mongoose.connect is called and awaited.
BeginConnect(r, kind) ==
    /\ CanArrive(r)
    /\ ~isConnected
    /\ req' = [req EXCEPT ![r] = [NewReq(kind) EXCEPT !.pc = "connecting"]]
    /\ UNCHANGED <<uploadDir, isConnected, gfsBucket, catalog, files, pendingDel, clock>>

\* mongoose.connect resolves: lines 28-34, then the handler up to its first
\* query.  The body of the request is first looked at here.
PutConnected(r, raw, file) ==
    /\ req[r].pc = "connecting" /\ req[r].kind = "put"
    /\ isConnected' = TRUE
    /\ gfsBucket' = TRUE
    /\ PutValidate(raw, file).pc = "done" => MayReject
    /\ req' = [req EXCEPT ![r] = PutValidate(raw, file)]
    /\ UNCHANGED <<uploadDir, catalog, files, pendingDel, clock>>

DeleteConnected(r, raw) ==
    /\ req[r].pc = "connecting" /\ req[r].kind = "delete"
    /\ isConnected' = TRUE
    /\ gfsBucket' = TRUE
    /\ DeleteValidate(raw).pc = "done" => MayReject
    /\ req' = [req EXCEPT ![r] = DeleteValidate(raw)]
    /\ UNCHANGED <<uploadDir, catalog, files, pendingDel, clock>>

\* mongoose.connect rejects, and ensureDb with it.
ConnectFail(r) ==
    /\ req[r].pc = "connecting"
    /\ MayFail
    /\ \E answer \in FailureAnswers(req[r].kind, "connect failed") :
         req' = [req EXCEPT ![r] = answer]
    /\ UNCHANGED <<uploadDir, isConnected, gfsBucket, catalog, files, pendingDel, clock>>

\* Lines 79-91: findOne answers; the blob of the entry found is handed to
\* gfsBucket.delete at once, and the upload stream is opened.
PutFindOne(r) ==
    /\ req[r].pc = "findOne"
    /\ \E existing \in ModifyTargets(req[r].envelopeId) :
         /\ LET old == IF existing = {} THEN <<>>
                       ELSE (CHOOSE d \in existing : TRUE).fileId
            IN  /\ pendingDel' = IF old # <<>> THEN IssueDelete(pendingDel, old)
                                 ELSE pendingDel
                /\ req' = [req EXCEPT ![r].pc = "writing", ![r].existing = old]
    /\ UNCHANGED <<uploadDir, isConnected, gfsBucket, catalog, files, clock>>

PutFindOneFail(r) ==
    /\ req[r].pc = "findOne"
    /\ MayFail
    /\ req' = [req EXCEPT ![r] = Failed(RespondError(@.kind, 500, "findOne failed"))]
    /\ UNCHANGED <<uploadDir, isConnected, gfsBucket, catalog, files, pendingDel, clock>>

\* Lines 93-99: the stream finishes; the files document of the blob exists
\* from here on and the promise resolves with String(uploadStream.id).
GridFsFile(r) ==
    [_id |-> StreamId(r), filename |-> req[r].file.originalname,
     contentType |-> req[r].file.mimetype,
     metadata |-> [envelopeId |-> req[r].envelopeId],
     data |-> req[r].file.buffer, length |-> Len(req[r].file.buffer)]

PutWriteFinish(r) ==
    /\ req[r].pc = "writing"
    /\ files' = files \cup {GridFsFile(r)}
    /\ req' = [req EXCEPT ![r].pc = "upsert", ![r].fileId = OidString(StreamId(r))]
    /\ UNCHANGED <<uploadDir, isConnected, gfsBucket, catalog, pendingDel, clock>>

\* The stream emits 'error': the promise rejects and the catch answers 500.
PutWriteFail(r) ==
    /\ req[r].pc = "writing"
    /\ MayFail
    /\ req' = [req EXCEPT ![r] = Failed(RespondError(@.kind, 500, "blob write failed"))]
    /\ UNCHANGED <<uploadDir, isConnected, gfsBucket, catalog, files, pendingDel, clock>>

\* The update document of lines 104-111.
\* Variant: size taken from the wrong property of the file.
UpsertFields_mixed(r) ==
    [envelopeId |-> req[r].envelopeId, originalName |-> req[r].file.originalname,
     mimeType |-> req[r].file.mimetype, size |-> Len(req[r].file.originalname),
     fileId |-> req[r].fileId, url |-> FileUrl(req[r].fileId)]

UpsertFields(r) ==
    [envelopeId |-> req[r].envelopeId, originalName |-> req[r].file.originalname,
     mimeType |-> req[r].file.mimetype, size |-> req[r].file.size,
     fileId |-> req[r].fileId, url |-> FileUrl(req[r].fileId)]

\* Upload.findOneAndUpdate({ envelopeId }, fields, { new: true, upsert: true }):
\* the catalog after the call and the document it returns.
\* Variant: an insert where the route asks for an upsert.
FindOneAndUpdate_insert(cat, old, fields) == cat \cup {NewUploadDoc(fields)}

FindOneAndUpdate(cat, old, fields) ==
    IF old = {} THEN cat \cup {NewUploadDoc(fields)}
    ELSE (cat \ old) \cup {UpdatedUploadDoc(CHOOSE d \in old : TRUE, fields)}

UpsertResult(old, fields) ==
    IF old = {} THEN NewUploadDoc(fields)
    ELSE UpdatedUploadDoc(CHOOSE d \in old : TRUE, fields)

\* Lines 101-123.
PutUpsert(r) ==
    /\ req[r].pc = "upsert"
    /\ \E old \in ModifyTargets(req[r].envelopeId) :
         /\ catalog' = FindOneAndUpdate(catalog, old, UpsertFields(r))
         /\ clock' = IF old = {} THEN clock + 1 ELSE clock
         /\ req' = [req EXCEPT ![r] =
                      Respond(@, 200, DocJson(UpsertResult(old, UpsertFields(r))))]
    /\ UNCHANGED <<uploadDir, isConnected, gfsBucket, files, pendingDel>>

PutUpsertFail(r) ==
    /\ req[r].pc = "upsert"
    /\ MayFail
    /\ req' = [req EXCEPT ![r] = Failed(RespondError(@.kind, 500, "upsert failed"))]
    /\ UNCHANGED <<uploadDir, isConnected, gfsBucket, catalog, files, pendingDel, clock>>

\* ------------------------------------------------------------------------
\* app.delete('/api/envelopes/:envelopeId', ...)
\* ------------------------------------------------------------------------
\* Variant: the route reports a deletion whatever findOneAndDelete returned.
DeleteJson_always(found) == [ok |-> TRUE, deleted |-> TRUE]

\* Lines 186 and 197: the body of the answer, deleted telling whether
\* findOneAndDelete returned a document.
DeleteJson(found) == [ok |-> TRUE, deleted |-> found]

\* Variant: the document is looked up but left in the collection.
FindOneAndDelete_find(doc) == catalog

\* Upload.findOneAndDelete({ envelopeId }): the collection without the
\* document it returns.
FindOneAndDelete(doc) == catalog \ {doc}

\* Lines 183-197, the entry found and removed.
DeleteFound(r) ==
    /\ req[r].pc = "findOneAndDelete"
    /\ \E doc \in Matching(req[r].envelopeId) :
         /\ catalog' = FindOneAndDelete(doc)
         /\ pendingDel' = IF doc.fileId # <<>> THEN IssueDelete(pendingDel, doc.fileId)
                          ELSE pendingDel
         /\ req' = [req EXCEPT ![r] =
                      Respond([@ EXCEPT !.existing = doc.fileId], 200,
                              DeleteJson(TRUE))]
    /\ UNCHANGED <<uploadDir, isConnected, gfsBucket, files, clock>>

\* Lines 183-187, no entry.
DeleteAbsent(r) ==
    /\ req[r].pc = "findOneAndDelete"
    /\ Matching(req[r].envelopeId) = {}
    /\ req' = [req EXCEPT ![r] = Respond(@, 200, DeleteJson(FALSE))]
    /\ UNCHANGED <<uploadDir, isConnected, gfsBucket, catalog, files, pendingDel, clock>>

DeleteFail(r) ==
    /\ req[r].pc = "findOneAndDelete"
    /\ MayFail
    /\ req' = [req EXCEPT ![r] = Failed(RespondError(@.kind, 500, "delete failed"))]
    /\ UNCHANGED <<uploadDir, isConnected, gfsBucket, catalog, files, pendingDel, clock>>

\* ------------------------------------------------------------------------
\* The bucket carries out a delete some time after the call
\* ------------------------------------------------------------------------
\* The files document (and the chunks) of oid are removed; when there is
\* none the driver reports FileNotFound to the empty callback.
GfsDelete(oid) ==
    /\ pendingDel[oid] > 0
    /\ files' = {f \in files : f._id # oid}
    /\ pendingDel' = [pendingDel EXCEPT ![oid] = @ - 1]
    /\ UNCHANGED <<uploadDir, isConnected, gfsBucket, catalog, req, clock>>

\* Variant: the handler awaits the delete, so that its failure reaches the
\* catch of the request that issued it.
GfsDeleteFail_surfaced(oid) ==
    /\ pendingDel[oid] > 0
    /\ pendingDel' = [pendingDel EXCEPT ![oid] = @ - 1]
    /\ req' = [r \in Reqs |->
                 IF req[r].pc \in {"writing", "upsert"}
                    /\ req[r].existing = OidString(oid)
                 THEN RespondError(req[r].kind, 500, "blob delete failed")
                 ELSE req[r]]
    /\ UNCHANGED <<uploadDir, isConnected, gfsBucket, catalog, files, clock>>

\* The delete fails on the backend: nothing is removed and nobody is told.
GfsDeleteFail(oid) ==
    /\ pendingDel[oid] > 0
    /\ pendingDel' = [pendingDel EXCEPT ![oid] = @ - 1]
    /\ UNCHANGED <<uploadDir, isConnected, gfsBucket, catalog, files, req, clock>>

\* ------------------------------------------------------------------------
\* app.get('/api/files/:id', ...)
\* ------------------------------------------------------------------------
\* A string no ObjectId can be built from.
BadId == <<"x">>
\* req.params.id: the string form of an id the bucket has given or may
\* give out, or BadId.
FileIds == {OidString(oid) : oid \in Oids} \cup {BadId}

NotFoundText == [text |-> "Not found"]

\* Lines 206-216, run once ensureDb has returned: the ObjectId constructor
\* throws on a malformed id and the catch answers 400.
GetFileStart(id) ==
    IF id = <<>>
    THEN Respond(NewReq("getFile"), 400, [text |-> "Missing id"])
    ELSE IF ~OidValid(id)
         THEN Respond(NewReq("getFile"), 400, [text |-> "Bad request"])
         ELSE [NewReq("getFile") EXCEPT !.pc = "findFile", !.fileId = id]

GetFileBegin(r, id) ==
    /\ CanArrive(r)
    /\ isConnected
    /\ gfsBucket' = TRUE
    /\ GetFileStart(id).pc = "done" => MayReject
    /\ req' = [req EXCEPT ![r] = GetFileStart(id)]
    /\ UNCHANGED <<uploadDir, isConnected, catalog, files, pendingDel, clock>>

GetFileConnected(r, id) ==
    /\ req[r].pc = "connecting" /\ req[r].kind = "getFile"
    /\ isConnected' = TRUE
    /\ gfsBucket' = TRUE
    /\ GetFileStart(id).pc = "done" => MayReject
    /\ req' = [req EXCEPT ![r] = GetFileStart(id)]
    /\ UNCHANGED <<uploadDir, catalog, files, pendingDel, clock>>

\* Lines 212-229: the find on uploads.files answers; with no document the
\* answer is 404, otherwise the headers are set and the download stream is
\* opened and piped.
GetFileFind(r) ==
    /\ req[r].pc = "findFile"
    /\ req' = [req EXCEPT ![r] =
                 IF BlobAt(@.fileId) = {}
                 THEN Respond(NewReq(@.kind), 404, NotFoundText)
                 ELSE [@ EXCEPT !.pc = "streaming"]]
    /\ UNCHANGED <<uploadDir, isConnected, gfsBucket, catalog, files, pendingDel, clock>>

\* The find rejects: the catch of lines 233-235.
GetFileFindFail(r) ==
    /\ req[r].pc = "findFile"
    /\ MayFail
    /\ \E answer \in FailureAnswers(req[r].kind, "find failed") :
         req' = [req EXCEPT ![r] = answer]
    /\ UNCHANGED <<uploadDir, isConnected, gfsBucket, catalog, files, pendingDel, clock>>

\* The download stream reads the blob: its bytes go out with status 200 and
\* the content type of the files document (which is never modified, so it
\* is the type line 224 set); when the blob has been deleted since the find
\* the stream emits 'error' before any byte and line 230 answers 404.
GetFileStream(r) ==
    /\ req[r].pc = "streaming"
    /\ \/ /\ BlobAt(req[r].fileId) = {}
          /\ req' = [req EXCEPT ![r] = Respond(NewReq(@.kind), 404, NotFoundText)]
       \/ \E f \in BlobAt(req[r].fileId) :
            req' = [req EXCEPT ![r] =
                      Respond(NewReq(@.kind), 200,
                              [data |-> f.data, contentType |-> f.contentType])]
    /\ UNCHANGED <<uploadDir, isConnected, gfsBucket, catalog, files, pendingDel, clock>>

\* The backend fails the stream: 'error' is emitted and line 230 answers.
GetFileStreamFail(r) ==
    /\ req[r].pc = "streaming"
    /\ MayFail
    /\ req' = [req EXCEPT ![r] = Failed(Respond(NewReq(@.kind), 404, NotFoundText))]
    /\ UNCHANGED <<uploadDir, isConnected, gfsBucket, catalog, files, pendingDel, clock>>

\* ------------------------------------------------------------------------
\* app.get('/api/uploads', ...) and app.get('/api/envelopes', ...)
\* ------------------------------------------------------------------------
ListLimit == 200
ListKinds == {"getAll", "envelopes"}

\* .sort({ createdAt: -1 }): the documents from the latest creation time to
\* the earliest.  With one document per creation time they are read off
\* the times in descending order; in general a document's position is the
\* number of documents that come before it, those of one creation time in
\* the order of their _id.
Before(e, d) ==
    \/ e.createdAt > d.createdAt
    \/ e.createdAt = d.createdAt /\ e._id < d._id

SortByCreatedAtDesc(docs) ==
    LET times == {d.createdAt : d \in docs}
        latest == CHOOSE t \in times : \A u \in times : u <= t
        descending == SelectSeq([i \in 1..(latest + 1) |-> latest + 1 - i],
                                LAMBDA t : t \in times)
    IN IF docs = {} THEN <<>>
       ELSE IF Cardinality(times) = Cardinality(docs)
            THEN [k \in 1..Len(descending) |->
                    CHOOSE d \in docs : d.createdAt = descending[k]]
            ELSE [k \in 1..Cardinality(docs) |->
                    CHOOSE d \in docs :
                        Cardinality({e \in docs : Before(e, d)}) = k - 1]

\* Variant: the query without its limit.
Limit_none(seq, n) == seq

\* .limit(n)
Limit(seq, n) == IF Len(seq) <= n THEN seq ELSE SubSeq(seq, 1, n)

\* The test of lines 134 and 159: a document without fileId is listed only
\* when UPLOAD_DIR is set.
Listed(d) == ~(~uploadDir /\ d.fileId = <<>>)

\* Lines 131-147: the body of the answer of /api/uploads.
GetAllJson ==
    LET docs == Limit(SortByCreatedAtDesc(catalog), ListLimit)
        kept == SelectSeq(docs, Listed)
    IN [i \in 1..Len(kept) |-> DocJson(kept[i])]

\* Lines 152-171: the body of the answer of /api/envelopes.  Were two
\* documents to carry one envelopeId, the one visited last would stay.
EnvelopesJson ==
    LET kept == {d \in catalog : d.envelopeId \in Nat /\ Listed(d)}
    IN [e \in {d.envelopeId : d \in kept} |->
          DocJson(CHOOSE d \in kept : d.envelopeId = e)]

ListJson(kind) ==
    IF kind = "getAll" THEN [list |-> GetAllJson] ELSE [map |-> EnvelopesJson]

ListStart(kind) == [NewReq(kind) EXCEPT !.pc = "find"]

ListBegin(r, kind) ==
    /\ CanArrive(r)
    /\ isConnected
    /\ gfsBucket' = TRUE
    /\ req' = [req EXCEPT ![r] = ListStart(kind)]
    /\ UNCHANGED <<uploadDir, isConnected, catalog, files, pendingDel, clock>>

ListConnected(r) ==
    /\ req[r].pc = "connecting" /\ req[r].kind \in ListKinds
    /\ isConnected' = TRUE
    /\ gfsBucket' = TRUE
    /\ req' = [req EXCEPT ![r] = ListStart(@.kind)]
    /\ UNCHANGED <<uploadDir, catalog, files, pendingDel, clock>>

\* Upload.find() answers and the handler sends the listing.
ListFind(r) ==
    /\ req[r].pc = "find"
    /\ req' = [req EXCEPT ![r] = Respond(@, 200, ListJson(@.kind))]
    /\ UNCHANGED <<uploadDir, isConnected, gfsBucket, catalog, files, pendingDel, clock>>

\* Upload.find() rejects.
ListFindFail(r) ==
    /\ req[r].pc = "find"
    /\ MayFail
    /\ \E answer \in FailureAnswers(req[r].kind, "find failed") :
         req' = [req EXCEPT ![r] = answer]
    /\ UNCHANGED <<uploadDir, isConnected, gfsBucket, catalog, files, pendingDel, clock>>

\* ------------------------------------------------------------------------
\* Specifications
\* ------------------------------------------------------------------------
\* The steps of the handlers when the backend answers.
Handlers ==
    \/ \E r \in Reqs, file \in OtherFiles : PutRejectedByFilter(r, file)
    \/ \E r \in Reqs : PutFileTooLarge(r)
    \/ \E r \in Reqs, in \in PutInputs : PutBegin(r, in[1], in[2])
    \/ \E r \in Reqs, raw \in DeleteRawIds : DeleteBegin(r, raw)
    \/ \E r \in Reqs, kind \in {"put", "delete"} : BeginConnect(r, kind)
    \/ \E r \in Reqs, in \in PutInputs : PutConnected(r, in[1], in[2])
    \/ \E r \in Reqs, raw \in DeleteRawIds : DeleteConnected(r, raw)
    \/ \E r \in Reqs : PutFindOne(r)
    \/ \E r \in Reqs : PutWriteFinish(r)
    \/ \E r \in Reqs : PutUpsert(r)
    \/ \E r \in Reqs : DeleteFound(r)
    \/ \E r \in Reqs : DeleteAbsent(r)

\* The steps in which the backend fails a request.
Failures ==
    \/ \E r \in Reqs : ConnectFail(r)
    \/ \E r \in Reqs : PutFindOneFail(r)
    \/ \E r \in Reqs : PutWriteFail(r)
    \/ \E r \in Reqs : PutUpsertFail(r)
    \/ \E r \in Reqs : DeleteFail(r)

\* The steps of the file route and of the two listings.
Readers ==
    \/ \E r \in Reqs, id \in FileIds : GetFileBegin(r, id)
    \/ \E r \in Reqs, kind \in ListKinds : ListBegin(r, kind)
    \/ \E r \in Reqs, kind \in ReadKinds : BeginConnect(r, kind)
    \/ \E r \in Reqs, id \in FileIds : GetFileConnected(r, id)
    \/ \E r \in Reqs : ListConnected(r)
    \/ \E r \in Reqs : GetFileFind(r)
    \/ \E r \in Reqs : GetFileStream(r)
    \/ \E r \in Reqs : ListFind(r)

ReadFailures ==
    \/ \E r \in Reqs : GetFileFindFail(r)
    \/ \E r \in Reqs : GetFileStreamFail(r)
    \/ \E r \in Reqs : ListFindFail(r)

\* The steps of the delete route when the backend answers.
Deleters ==
    \/ \E r \in Reqs, raw \in DeleteRawIds : DeleteBegin(r, raw)
    \/ \E r \in Reqs : BeginConnect(r, "delete")
    \/ \E r \in Reqs, raw \in DeleteRawIds : DeleteConnected(r, raw)
    \/ \E r \in Reqs : DeleteFound(r)
    \/ \E r \in Reqs : DeleteAbsent(r)

\* Uploads and deletes, with a backend that may fail any awaited call and
\* any deletion.
Next ==
    \/ Handlers
    \/ Failures
    \/ \E oid \in Oids : GfsDelete(oid)
    \/ \E oid \in Oids : GfsDeleteFail(oid)

Spec == Init /\ [][Next]_vars

\* The backend does not fail, and a deletion that was issued is carried out:
\* the driver runs the call whether or not the request that issued it is
\* still being handled.
NextReliable ==
    \/ Handlers
    \/ \E oid \in Oids : GfsDelete(oid)

FairSpec ==
    Init /\ [][NextReliable]_vars /\ \A oid \in Oids : WF_vars(GfsDelete(oid))

\* Reads of blobs and listings next to deletes, with a backend that may
\* fail.
ReadNext ==
    \/ Deleters
    \/ Readers
    \/ ReadFailures
    \/ \E r \in Reqs : ConnectFail(r)
    \/ \E r \in Reqs : DeleteFail(r)
    \/ \E oid \in Oids : GfsDelete(oid)
    \/ \E oid \in Oids : GfsDeleteFail(oid)

ReadSpec == Init /\ [][ReadNext]_vars

\* The collection and the bucket as earlier runs may have left them: n
\* documents of n envelopes, created in an order unrelated to their ids,
\* every fifth of them a document without fileId (written when the images
\* were kept under UPLOAD_DIR), and the blobs of the others.
BigDoc(i) ==
    [_id |-> i, envelopeId |-> i, originalName |-> "img.png",
     mimeType |-> <<"image", "png">>, size |-> 1,
     fileId |-> IF i % 5 = 0 THEN <<>> ELSE OidString(NumReqs + i),
     url |-> IF i % 5 = 0 THEN <<"/uploads/", "img.png">>
             ELSE FileUrl(OidString(NumReqs + i)),
     createdAt |-> 1 + ((i * 37) % 211)]
BigFile(i) ==
    [_id |-> NumReqs + i, filename |-> "img.png",
     contentType |-> <<"image", "png">>, metadata |-> [envelopeId |-> i],
     data |-> <<i % 3>>, length |-> 1]
BigCatalog(n) ==
    IF n = 0 THEN {} ELSE {StoredDoc} \cup {BigDoc(i) : i \in 2..n}
BigFiles(n) ==
    IF n = 0 THEN {}
    ELSE {StoredFile} \cup {BigFile(i) : i \in {j \in 2..n : j % 5 # 0}}

\* Sizes of the collection: a few small ones and those around the limit of
\* the listing.
ListSizes == (0..3) \cup ((ListLimit - 1)..MaxDocs)

ListInit ==
    /\ isConnected = FALSE
    /\ gfsBucket = FALSE
    /\ \E n \in ListSizes : catalog = BigCatalog(n) /\ files = BigFiles(n)
    /\ pendingDel = [oid \in Oids |-> 0]
    /\ req = [r \in Reqs |-> IdleReq]
    /\ clock = 1
    /\ uploadDir \in BOOLEAN

\* The two listings next to deletes, the backend answering.
ListNext ==
    \/ Deleters
    \/ \E r \in Reqs, kind \in ListKinds : ListBegin(r, kind)
    \/ \E r \in Reqs, kind \in ListKinds : BeginConnect(r, kind)
    \/ \E r \in Reqs : ListConnected(r)
    \/ \E r \in Reqs : ListFind(r)
    \/ \E oid \in Oids : GfsDelete(oid)

ListSpec == ListInit /\ [][ListNext]_vars

\* ------------------------------------------------------------------------
\* Properties
\* ------------------------------------------------------------------------
\* The envelope of request r has exactly one entry, and it is the one r's
\* upload wrote: every field from r's file and r's blob.
EntryIs(r) ==
    \E d \in catalog :
        /\ Matching(req[r].envelopeId) = {d}
        /\ d.originalName = req[r].file.originalname
        /\ d.mimeType = req[r].file.mimetype
        /\ d.size = Len(req[r].file.buffer)
        /\ d.fileId = req[r].fileId
        /\ d.url = FileUrl(req[r].fileId)

\* Reading r's fileId yields the bytes and the content type r uploaded.
BlobIs(r) ==
    /\ BlobPresent(req[r].fileId)
    /\ \A f \in BlobAt(req[r].fileId) :
         f.data = req[r].file.buffer /\ f.contentType = req[r].file.mimetype

PutOk(r) == req[r].kind = "put" /\ req[r].pc = "done" /\ req[r].status = 200
DeleteOk(r) == req[r].kind = "delete" /\ req[r].pc = "done" /\ req[r].status = 200

\* C1: every catalog entry's fileId names a fully written blob that is
\* present in the bucket, in every reachable state.
C1_EntryBlobPresent == \A d \in catalog : BlobPresent(d.fileId)

\* C2: a blob is handed to gfsBucket.delete only once no catalog entry
\* points at it any more: no deletion is issued ahead of the catalog change
\* that supersedes the blob.
C2_DeleteAfterCatalogChange ==
    [][\A oid \in Oids :
         pendingDel'[oid] > pendingDel[oid]
           => \A d \in catalog' : d.fileId # OidString(oid)]_vars

\* C3: at most one catalog entry per envelopeId, in every reachable state.
C3_OneEntryPerEnvelope ==
    \A d1 \in catalog, d2 \in catalog : d1.envelopeId = d2.envelopeId => d1 = d2

\* Two uploads for one envelope that both found no entry, hence overlapped,
\* have both been answered and the envelope has its entry.
C3_Witness ==
    \E a \in Reqs, b \in Reqs :
        /\ a # b /\ PutOk(a) /\ PutOk(b)
        /\ req[a].envelopeId = req[b].envelopeId
        /\ req[a].existing = <<>> /\ req[b].existing = <<>>
        /\ Cardinality(Matching(req[a].envelopeId)) = 1

\* C4: when an upload is answered 200 while no other request is being
\* handled, the envelope's entry carries the upload's name, type and byte
\* count, and the blob at the entry's url is the uploaded bytes with that
\* content type.
C4_PutStoresInput ==
    [][\A r \in Reqs :
         req[r].pc = "upsert" /\ InFlight = {r} /\ PutOk(r)'
           => EntryIs(r)' /\ BlobIs(r)']_vars

\* An upload of a non-empty file has just been answered with nothing else
\* in flight; its entry and its blob are there.
C4_Witness ==
    \E r \in Reqs :
        /\ PutOk(r) /\ InFlight = {} /\ req[r].file.buffer # <<>>
        /\ EntryIs(r) /\ BlobIs(r)

\* Upload b found the entry upload a had written: b replaced a.
SeqReplace(a, b) ==
    /\ a # b /\ PutOk(a) /\ PutOk(b)
    /\ req[a].envelopeId = req[b].envelopeId
    /\ req[b].existing = req[a].fileId

\* No request other than a and b has changed the envelope of a.
OnlyThese(a, b) ==
    \A c \in Reqs \ {a, b} :
        ~(req[c].pc = "done" /\ req[c].status = 200
          /\ req[c].envelopeId = req[a].envelopeId)

\* C5: after put(id, A) and then put(id, B) have succeeded the entry of id
\* is B's, and A's blob is eventually gone from the bucket, so that a read
\* of A's handle finds nothing.
C5_SequentialReplace ==
    /\ [](\A a \in Reqs, b \in Reqs :
            SeqReplace(a, b) /\ OnlyThese(a, b) => EntryIs(b))
    /\ \A oid \in Oids :
            (\E a \in Reqs, b \in Reqs :
                SeqReplace(a, b) /\ req[a].fileId = OidString(oid))
              ~> ~BlobPresent(OidString(oid))

C5_Witness ==
    \E a \in Reqs, b \in Reqs :
        /\ SeqReplace(a, b) /\ EntryIs(b) /\ BlobIs(b)
        /\ req[a].file # req[b].file
        /\ ~BlobPresent(req[a].fileId)

\* C6: two uploads for one envelope that were both answered 200 leave
\* exactly one entry for it, every field of which comes from one and the
\* same of the two uploads.
C6_OneOfTheTwo ==
    \A a \in Reqs, b \in Reqs :
        /\ a # b /\ PutOk(a) /\ PutOk(b)
        /\ req[a].envelopeId = req[b].envelopeId
        /\ OnlyThese(a, b)
        => EntryIs(a) \/ EntryIs(b)

\* The two uploads overlapped (both saw the envelope in the same state) and
\* carried different files.
C6_Witness ==
    \E a \in Reqs, b \in Reqs :
        /\ a # b /\ PutOk(a) /\ PutOk(b)
        /\ req[a].envelopeId = req[b].envelopeId
        /\ req[a].existing = req[b].existing
        /\ req[a].file.originalname # req[b].file.originalname
        /\ req[a].file.mimetype # req[b].file.mimetype
        /\ EntryIs(a) /\ ~EntryIs(b)

\* C7: once two uploads for one envelope have both been answered, nothing
\* is in flight and every issued deletion has been carried out, no blob is
\* left in the bucket that no catalog entry points at.
C7_NoOrphanAfterRace ==
    /\ \E a \in Reqs, b \in Reqs :
          a # b /\ PutOk(a) /\ PutOk(b) /\ req[a].envelopeId = req[b].envelopeId
    /\ \A r \in Reqs : req[r].pc = "idle" \/ PutOk(r) \/ DeleteOk(r)
    /\ \A oid \in Oids : pendingDel[oid] = 0
    => \A f \in files : \E d \in catalog : d.fileId = OidString(f._id)

\* An envelopeId that is not a non-negative integer: missing, empty, or
\* anything but decimal digits (a sign, a fraction, a word).
NotAnEnvelopeId(raw) ==
    ~raw.defined \/ raw.chars = <<>> \/ ~AllDigits(raw.chars)

\* Request r is answered with a validation error in this step and neither
\* the catalog nor the bucket changes, nor is a deletion issued.
TurnedAway(r, codes) ==
    /\ req'[r].pc = "done" /\ req'[r].status \in codes
    /\ UNCHANGED <<catalog, files, pendingDel>>

\* C8: an upload or a delete whose envelopeId is not a non-negative integer
\* is answered 400 by the step that validates it, and no blob or catalog
\* entry is created, changed or removed.
C8_InvalidIdRejected ==
    [][\A r \in Reqs :
         /\ \A in \in PutInputs :
              /\ PutBegin(r, in[1], in[2]) \/ PutConnected(r, in[1], in[2])
              /\ NotAnEnvelopeId(in[1])
              => TurnedAway(r, {400})
         /\ \A raw \in DeleteRawIds :
              /\ DeleteBegin(r, raw) \/ DeleteConnected(r, raw)
              /\ NotAnEnvelopeId(raw)
              => TurnedAway(r, {400})]_vars

\* C9: an upload with no file, with an empty file or with a file that is
\* not an image is answered with a 4xx validation error and leaves the
\* catalog and the bucket as they were.
C9_BadPayloadRejected ==
    [][\A r \in Reqs :
         /\ \A in \in PutInputs :
              /\ PutBegin(r, in[1], in[2]) \/ PutConnected(r, in[1], in[2])
              /\ ~in[2].present \/ in[2].buffer = <<>>
              => TurnedAway(r, 400..499)
         /\ \A file \in OtherFiles :
              PutRejectedByFilter(r, file) => TurnedAway(r, 400..499)]_vars

\* C10: when the blob write of an upload fails, the request is answered
\* with an error, the catalog is unchanged, and the entry the envelope has
\* still resolves to a blob in the bucket.
C10_WriteFailureKeepsOld ==
    [][\A r \in Reqs :
         PutWriteFail(r)
           => /\ req'[r].status = 500
              /\ catalog' = catalog
              /\ \A d \in Matching(req[r].envelopeId) : BlobPresent(d.fileId)']_vars

\* C11: when the catalog upsert of an upload fails after its blob was
\* written, the request is answered with an error, the entries the envelope
\* had are still the catalog's answer, and a deletion of the blob the
\* upload has just written is issued.
C11_UpsertFailureCleansUp ==
    [][\A r \in Reqs :
         PutUpsertFail(r)
           => /\ req'[r].pc = "done" /\ req'[r].status >= 500
              /\ Matching(req[r].envelopeId)' = Matching(req[r].envelopeId)
              /\ pendingDel'[StreamId(r)] > pendingDel[StreamId(r)]]_vars

\* C12: when findOneAndDelete answers a delete whose envelope has no entry,
\* the request is answered 200 with deleted false and the catalog, the
\* bucket and the deletions issued are as before; hence of two deletes of
\* one envelope that no upload has touched at most one reports a deletion.
C12_DeleteAbsentIsNoop ==
    /\ [][\A r \in Reqs :
            /\ req[r].pc = "findOneAndDelete"
            /\ Matching(req[r].envelopeId) = {}
            /\ req'[r] # req[r] /\ ~DeleteFail(r)
            => /\ req'[r].pc = "done" /\ req'[r].status = 200
               /\ req'[r].body = [ok |-> TRUE, deleted |-> FALSE]
               /\ UNCHANGED <<catalog, files, pendingDel>>]_vars
    /\ [](\A a \in Reqs, b \in Reqs :
            /\ a # b /\ DeleteOk(a) /\ DeleteOk(b)
            /\ req[a].envelopeId = req[b].envelopeId
            /\ \A c \in Reqs :
                 req[c].kind = "put" => req[c].envelopeId # req[a].envelopeId
            => ~(req[a].body.deleted /\ req[b].body.deleted))

\* The entry of envelope 1 was deleted by one request; a second delete of
\* envelope 1 found nothing and said so, and the catalog is still empty.
C12_Witness ==
    \E a \in Reqs, b \in Reqs :
        /\ a # b /\ DeleteOk(a) /\ DeleteOk(b)
        /\ req[a].envelopeId = 1 /\ req[b].envelopeId = 1
        /\ req[a].body.deleted /\ ~req[b].body.deleted
        /\ catalog = {}

\* C13: when findOneAndDelete answers a delete whose envelope has an entry,
\* the request is answered 200 with deleted true and the envelope has no
\* entry any more; and the blob of the entry removed is eventually gone
\* from the bucket, so that a read of the old url finds nothing.
C13_DeleteRemovesEntryAndBlob ==
    /\ [][\A r \in Reqs :
            /\ req[r].pc = "findOneAndDelete"
            /\ Matching(req[r].envelopeId) # {}
            /\ req'[r] # req[r] /\ ~DeleteFail(r)
            => /\ req'[r].pc = "done" /\ req'[r].status = 200
               /\ req'[r].body = [ok |-> TRUE, deleted |-> TRUE]
               /\ Matching(req[r].envelopeId)' = {}]_vars
    /\ \A oid \in Oids :
            (\E r \in Reqs :
                DeleteOk(r) /\ req[r].body.deleted
                /\ req[r].existing = OidString(oid))
              ~> ~BlobPresent(OidString(oid))

\* The entry of envelope 1 was deleted, the envelope has no entry and the
\* blob the entry pointed at has been removed from the bucket.
C13_Witness ==
    \E r \in Reqs :
        /\ DeleteOk(r) /\ req[r].body.deleted
        /\ req[r].existing = StoredDoc.fileId
        /\ Matching(StoredDoc.envelopeId) = {}
        /\ ~BlobPresent(StoredDoc.fileId)
        /\ pendingDel[ObjectId(StoredDoc.fileId)] = 0

\* The envelopes a step of request r works on: the one in its locals
\* before the step and the one after it.
EnvelopesOf(r) == {req[r].envelopeId, req'[r].envelopeId}

\* C14: a step of an upload or a delete for one envelope adds, changes or
\* removes no catalog entry of another envelope, and neither writes,
\* removes nor hands to gfsBucket.delete a blob of another envelope; the
\* blob of an entry is a blob of the entry's own envelope.
C14_OtherEnvelopesUntouched ==
    /\ [][\A r \in Reqs :
            req'[r] # req[r]
            => /\ \A d \in catalog \cup catalog' :
                    d.envelopeId \notin EnvelopesOf(r)
                    => d \in catalog /\ d \in catalog'
               /\ \A f \in files \cup files' :
                    f.metadata.envelopeId \notin EnvelopesOf(r)
                    => /\ f \in files /\ f \in files'
                       /\ pendingDel'[f._id] = pendingDel[f._id]]_vars
    /\ [](\A d \in catalog : \A f \in BlobAt(d.fileId) :
            f.metadata.envelopeId = d.envelopeId)

\* An upload for envelope 0 and the delete of envelope 1 overlapped and
\* were both answered; the entry and the blob of envelope 0 are the
\* upload's.
C14_Witness ==
    \E a \in Reqs, b \in Reqs :
        /\ PutOk(a) /\ req[a].envelopeId = 0 /\ req[a].existing = <<>>
        /\ DeleteOk(b) /\ req[b].envelopeId = 1 /\ req[b].body.deleted
        /\ a < b
        /\ EntryIs(a) /\ BlobIs(a)
        /\ ~BlobPresent(StoredDoc.fileId)

\* The failures of the I/O a handler awaits, as the catch reports them.
AwaitedFailures ==
    {"connect failed", "findOne failed", "blob write failed", "upsert failed",
     "delete failed"}

\* C15: a gfsBucket.delete call that removes nothing, because the backend
\* fails it or because the blob is already gone, changes no request and no
\* catalog entry and is not issued again; and every upload or delete that
\* is answered 500 is answered so for a failure of I/O it awaited itself.
C15_DeleteFailureIsSilent ==
    /\ [][\A oid \in Oids :
            pendingDel'[oid] < pendingDel[oid] /\ files' = files
            => /\ req' = req
               /\ catalog' = catalog
               /\ pendingDel' = [pendingDel EXCEPT ![oid] = @ - 1]]_vars
    /\ [](\A r \in Reqs :
            req[r].kind \in {"put", "delete"} /\ req[r].pc = "done"
            /\ req[r].status >= 500
            => req[r].body.error \in AwaitedFailures)

\* The deletion of the blob an upload replaced has failed: the blob is
\* still in the bucket, no call is outstanding, and the upload was
\* answered 200 with its entry in place.
C15_Witness ==
    \E r \in Reqs :
        /\ PutOk(r) /\ req[r].existing = StoredDoc.fileId
        /\ BlobPresent(StoredDoc.fileId)
        /\ pendingDel[ObjectId(StoredDoc.fileId)] = 0
        /\ EntryIs(r)

\* C16: a request to the file route whose id resolves to no blob of the
\* bucket, be it that none was ever stored under it or that the blob was
\* deleted before or during the request, is answered 404 by whichever step
\* answers it.
C16_UnresolvedIsNotFound ==
    [][\A r \in Reqs :
         /\ \A id \in FileIds :
              /\ GetFileBegin(r, id) \/ GetFileConnected(r, id)
              /\ BlobAt(id) = {} /\ req'[r].pc = "done"
              => req'[r].status = 404
         /\ /\ req[r].pc \in {"findFile", "streaming"}
            /\ BlobAt(req[r].fileId) = {} /\ req'[r].pc = "done"
            => req'[r].status = 404]_vars

\* C17: a step in which the backend fails an upload, a delete or one of
\* the two listings answers the request with a 5xx status and leaves the
\* catalog as it was.
C17_BackendFailureIs5xx ==
    [][\A r \in Reqs :
         /\ req'[r].kind \in {"put", "delete", "getAll", "envelopes"}
         /\ ~req[r].failed /\ req'[r].failed
         => /\ req'[r].pc = "done"
            /\ req'[r].status \in 500..599
            /\ catalog' = catalog]_vars

\* C18: the list /api/uploads answers with has at most ListLimit items, in
\* order of createdAt from the latest to the earliest, each of them the
\* json of a document the catalog holds when the answer is sent.
C18_GetAllOrderedAndCapped ==
    [][\A r \in Reqs :
         /\ req[r].kind = "getAll" /\ req[r].pc = "find"
         /\ req'[r].pc = "done" /\ req'[r].status = 200
         => LET out == req'[r].body.list
                json == {DocJson(d) : d \in catalog}
            IN /\ Len(out) <= ListLimit
               /\ \A i \in 1..(Len(out) - 1) :
                    out[i].createdAt >= out[i + 1].createdAt
               /\ \A i \in 1..Len(out) : out[i] \in json]_vars

\* The catalog holds more documents than the limit and a listing of it has
\* been answered with exactly ListLimit items.
C18_Witness ==
    \E r \in Reqs :
        /\ req[r].kind = "getAll" /\ req[r].pc = "done" /\ req[r].status = 200
        /\ Cardinality(catalog) > ListLimit
        /\ Len(req[r].body.list) = ListLimit
        /\ req[r].body.list[1].createdAt > req[r].body.list[ListLimit].createdAt

\* The mongoose.connect calls that are awaited or have resolved.
ConnectCalls ==
    Cardinality({r \in Reqs : req[r].pc = "connecting"})
      + (IF isConnected THEN 1 ELSE 0)

\* C19: at most one mongoose.connect call is ever outstanding or resolved,
\* the bucket is constructed at most once (once there, gfsBucket is never
\* assigned again), and a request that is past ensureDb finds gfsBucket
\* set.
C19_SingleInitialization ==
    /\ [](ConnectCalls <= 1)
    /\ [][gfsBucket => gfsBucket']_vars
    /\ [](\A r \in Reqs :
            req[r].pc \in {"findOne", "writing", "upsert", "findOneAndDelete",
                           "findFile", "streaming", "find"}
            => gfsBucket)

====
